---- MODULE Spec2Model ----
(***************************************************************************)
(* Menu -> SubMenu -> Dish REST API (src/main.py, src/main_asyncio.py).    *)
(* The store is three tables kept as sequences of rows in the order a      *)
(* SELECT without ORDER BY returns them.                                   *)
(* A request is served in the steps its handler takes: every database call *)
(* (query, commit, refresh) is one step, and the steps of the requests in  *)
(* flight interleave.  Every step is an operator named after the handler   *)
(* and the call; the operator named after the handler alone is the handler *)
(* run from its first call to its response with no other request between.  *)
(* The application is main.py ("sync") or main_asyncio.py ("async").       *)
(* Spec serves overlapping requests; SpecSerial serves them one after      *)
(* another, SpecPaging does so on either row-order behaviour of the        *)
(* engine, SpecPrice with a wider set of prices, SpecDelete creates rows   *)
(* and deletes menus.                                                      *)
(***************************************************************************)
EXTENDS Integers, Sequences, FiniteSets, TLC

\* ---------------------------------------------------------------- bounds
MaxInFlight == 2    \* requests being served at the same time
MaxRequests == 4    \* requests issued during a run, overlapping
MaxSerial == 5      \* requests issued during a run, one after another
MaxPaging == 5      \* requests issued during a run of SpecPaging
MaxPriced == 3      \* requests issued during a run of SpecPrice
MaxDeleting == 7    \* requests issued during a run of SpecDelete

Variants     == {"sync", "async"}
Titles       == {"t1", "t2"}
Descriptions == {"d1"}
\* descriptions an update may bring, the stored one and another
DescriptionsWide == Descriptions \cup {"d2"}
Prices       == {19999}              \* thousandths of a unit
\* prices around the rounding ties and the carry into the integer part
PricesWide   == Prices \cup {5, 15, 995, 19985, 19994, 19995}
Skips        == {0, 1}
Limits       == {1, 2}
FkPolicies   == {"CASCADE", "RESTRICT"}
\* where the engine keeps the new version of an updated row: in the old
\* row's place, or behind the rows already there
HeapPolicies == {"INPLACE", "APPEND"}

VARIABLES menus, submenus, dishes, nextId, fk, heap, app, clients, reqs, sessions

vars == <<menus, submenus, dishes, nextId, fk, heap, app, clients, reqs, sessions>>

\* ------------------------------------------------------------- responses
\* status 0   : the handler returned None (no JSONResponse, no HTTPException)
\* status 500 : an exception other than HTTPException left the handler
Resp(status, detail, body) == [status |-> status, detail |-> detail, body |-> body]

NoResponse == Resp(0, "", <<>>)

ServerError(what) == Resp(500, what, <<>>)

\* the database as a statement of any session sees it: the committed rows
Store == [menus |-> menus, submenus |-> submenus, dishes |-> dishes,
          nextId |-> nextId, fk |-> fk, heap |-> heap]

Out(db, resp) == [db |-> db, resp |-> resp]

\* ------------------------------------------------------------ query layer
\* Query.first(): truthiness of the first row
first(rows) == IF rows = <<>> THEN <<>> ELSE <<Head(rows)>>

\* Result.scalar_one_or_none(): raises MultipleResultsFound on 2+ rows
MultipleResultsFound(rows) == Len(rows) > 1

\* the attributes the unit of work writes at commit: those whose assigned
\* value differs from the value loaded by the query
Changed(loaded, assigned) == {c \in DOMAIN assigned : assigned[c] # loaded[c]}

\* UPDATE ... SET cols: the stored row with the written columns replaced
Assign(row, assigned, cols) ==
    [c \in DOMAIN row |-> IF c \in cols THEN assigned[c] ELSE row[c]]

\* the table after UPDATE ... WHERE id = id, as a later SELECT without
\* ORDER BY sees it
Rewrite(db, rows, id, row) ==
    IF db.heap = "APPEND"
    THEN SelectSeq(rows, LAMBDA r : r.id # id) \o <<row>>
    ELSE [i \in 1..Len(rows) |-> IF rows[i].id = id THEN row ELSE rows[i]]

\* .offset(skip).limit(limit)
OffsetLimit(rows, skip, limit) ==
    SubSeq(rows, skip + 1, IF skip + limit < Len(rows) THEN skip + limit ELSE Len(rows))

\* query(Menu).filter(Menu.id == menu_id)
MenuById(db, menu_id) == SelectSeq(db.menus, LAMBDA m : m.id = menu_id)

\* query(SubMenu).filter(SubMenu.id == submenu_id), whatever the menu
SubmenuByIds_IdOnly(db, menu_id, submenu_id) ==
    SelectSeq(db.submenus, LAMBDA s : s.id = submenu_id)

\* query(SubMenu).filter(SubMenu.menu_id == menu_id, SubMenu.id == submenu_id)
SubmenuByIds(db, menu_id, submenu_id) ==
    SelectSeq(db.submenus, LAMBDA s : s.menu_id = menu_id /\ s.id = submenu_id)

\* query(Dish).filter(Dish.submenu_id == submenu_id, Dish.id == dish_id)
DishByIds(db, submenu_id, dish_id) ==
    SelectSeq(db.dishes, LAMBDA d : d.submenu_id = submenu_id /\ d.id = dish_id)

\* the row a refresh or a flush addresses: by primary key alone
SubmenuByPk(db, submenu_id) == SelectSeq(db.submenus, LAMBDA s : s.id = submenu_id)

DishByPk(db, dish_id) == SelectSeq(db.dishes, LAMBDA d : d.id = dish_id)

\* query(SubMenu).filter(SubMenu.menu_id == menu_id)
SubmenusByMenu(db, menu_id) == SelectSeq(db.submenus, LAMBDA s : s.menu_id = menu_id)

\* query(Dish).filter(Dish.submenu_id == submenu_id)
DishesBySubmenu(db, submenu_id) == SelectSeq(db.dishes, LAMBDA d : d.submenu_id = submenu_id)

\* query(func.count(SubMenu.id)).filter(SubMenu.menu_id == menu_id).scalar()
SubmenusCount(db, menu_id) ==
    Len(SelectSeq(db.submenus, LAMBDA s : s.menu_id = menu_id))

\* rows of Dish JOIN SubMenu ON Dish.submenu_id = SubMenu.id, kept as the dish
\* paired with the menu_id of the joined submenu
RECURSIVE DishJoinSubMenu(_, _)
DishJoinSubMenu(ds, subs) ==
    IF ds = <<>> THEN <<>>
    ELSE LET d == Head(ds)
             js == SelectSeq(subs, LAMBDA s : s.id = d.submenu_id)
         IN  [i \in 1..Len(js) |-> [dish |-> d, menu_id |-> js[i].menu_id]]
             \o DishJoinSubMenu(Tail(ds), subs)

\* query(func.count(Dish.id)).join(SubMenu).filter(SubMenu.menu_id == menu_id)
\* DishesCountOfMenu without the filter on SubMenu.menu_id
DishesCountOfMenu_NoMenuFilter(db, menu_id) ==
    Len(DishJoinSubMenu(db.dishes, db.submenus))

DishesCountOfMenu(db, menu_id) ==
    Len(SelectSeq(DishJoinSubMenu(db.dishes, db.submenus),
                  LAMBDA j : j.menu_id = menu_id))

\* query(func.count(Dish.id)).filter(Dish.submenu_id == submenu_id).scalar()
\* DishesCount without the filter on Dish.submenu_id
DishesCount_NoFilter(db, submenu_id) ==
    Len(db.dishes)

DishesCount(db, submenu_id) ==
    Len(SelectSeq(db.dishes, LAMBDA d : d.submenu_id = submenu_id))

\* ------------------------------------------------------- schema (models)
\* Server-generated primary key: a value never handed out before.
NewId(db, table) == db.nextId[table]

Advance(db, table) == [db.nextId EXCEPT ![table] = @ + 1]

\* Foreign keys SubMenu.menu_id -> Menu.id and Dish.submenu_id -> SubMenu.id.
\* What the schema does with the children of a deleted parent is its
\* foreign-key configuration: the children go with it (CASCADE) or the
\* delete is refused (RESTRICT).
ChildSubmenus(db, menu_id) == SelectSeq(db.submenus, LAMBDA s : s.menu_id = menu_id)

ChildDishes(db, submenu_id) == SelectSeq(db.dishes, LAMBDA d : d.submenu_id = submenu_id)

\* FkRefusesDeleteMenu of a schema that lets a referenced Menu go
FkNeverRefusesDeleteMenu(db, menu_id) == FALSE

FkRefusesDeleteMenu(db, menu_id) ==
    db.fk = "RESTRICT" /\ ChildSubmenus(db, menu_id) # <<>>

FkRefusesDeleteSubmenu(db, submenu_id) ==
    db.fk = "RESTRICT" /\ ChildDishes(db, submenu_id) # <<>>

FkAfterDeleteSubmenus(db, gone) ==
    IF db.fk = "CASCADE"
    THEN [db EXCEPT !.dishes = SelectSeq(@, LAMBDA d : d.submenu_id \notin gone)]
    ELSE db

FkAfterDeleteMenu(db, menu_id) ==
    IF db.fk = "CASCADE"
    THEN LET gone == {s.id : s \in {db.submenus[i] : i \in
                                     {k \in 1..Len(db.submenus) :
                                        db.submenus[k].menu_id = menu_id}}}
         IN FkAfterDeleteSubmenus(
              [db EXCEPT !.submenus = SelectSeq(@, LAMBDA s : s.menu_id # menu_id)],
              gone)
    ELSE db

\* an INSERT whose foreign key names no parent row is refused
FkRefusesInsertSubmenu(db, menu_id) == MenuById(db, menu_id) = <<>>

FkRefusesInsertDish(db, submenu_id) == SubmenuByPk(db, submenu_id) = <<>>

\* ------------------------------------------------------------ price text
\* the price column: the value read back after commit and refresh keeps the
\* three fractional digits that were written
PriceColumn(p) == p

\* round(price, 2) that drops the third fractional digit
Round2_Truncating(p) == p \div 10

\* round(price, 2) of a decimal given in thousandths, ties to even,
\* as hundredths
Round2(p) ==
    LET q == p \div 10
        r == p % 10
    IN  IF r > 5 \/ (r = 5 /\ q % 2 = 1) THEN q + 1 ELSE q

\* str(round(price, 2)): integer part and two fractional digits
PriceRounded(p) ==
    LET h == Round2(p) IN [int |-> h \div 100, frac |-> <<(h \div 10) % 10, h % 10>>]

\* str(price): integer part and the three fractional digits as submitted
PriceRaw(p) ==
    [int |-> p \div 1000, frac |-> <<(p \div 100) % 10, (p \div 10) % 10, p % 10>>]

\* ----------------------------------------------------- a request in service
\* op: the handler; pc: the database call it makes next ("start": its first,
\* "answered": it has returned or raised); arg: path, query and body
\* parameters; loc: the handler's local variables that are still in use;
\* resp: its response
Request(op, arg) ==
    [op |-> op, pc |-> "start", arg |-> arg, loc |-> <<>>, resp |-> NoResponse]

\* result of a step: the database after it, and the request with the next
\* call to make
Go(db, r, pc, loc) == [db |-> db, req |-> [r EXCEPT !.pc = pc, !.loc = loc]]

\* result of a handler's last step: it returns or raises resp
Answer(db, r, resp) ==
    [db |-> db, req |-> [r EXCEPT !.pc = "answered", !.loc = <<>>, !.resp = resp]]

\* --------------------------------------------------------- Menu handlers
MenuBody(m) == [id |-> m.id, title |-> m.title, description |-> m.description]

MenuBodyCounted(m, submenus_count, dishes_count) ==
    [id |-> m.id, title |-> m.title, description |-> m.description,
     submenus_count |-> submenus_count, dishes_count |-> dishes_count]

\* db.add(new_menu); db.commit(): the INSERT
create_menu_commit(db, r) ==
    LET new_menu == [id |-> NewId(db, "menu"), title |-> r.arg.title,
                     description |-> r.arg.description]
    IN  Go([db EXCEPT !.menus = Append(@, new_menu),
                      !.nextId = Advance(db, "menu")],
           r, "refresh", [id |-> new_menu.id])

\* db.refresh(new_menu): SELECT by primary key, InvalidRequestError when the
\* row is gone; the response carries the attributes read back
create_menu_refresh(db, r) ==
    LET new_menu == MenuById(db, r.loc.id)
    IN  IF new_menu = <<>>
        THEN Answer(db, r, ServerError("InvalidRequestError"))
        ELSE Answer(db, r, Resp(201, "", <<MenuBody(new_menu[1])>>))

\* db.query(Menu).offset(skip).limit(limit).all()
read_menus_query(db, r) ==
    LET page == OffsetLimit(db.menus, r.arg.skip, r.arg.limit)
    IN  IF page = <<>>
        THEN Answer(db, r, Resp(200, "", <<>>))
        ELSE Go(db, r, "submenus_count", [menus |-> page, response_data |-> <<>>])

\* first count query of the loop, for the menu at the head of loc.menus
read_menus_submenus_count(db, r) ==
    Go(db, r, "dishes_count",
       [menus |-> r.loc.menus, response_data |-> r.loc.response_data,
        submenus_count |-> SubmenusCount(db, Head(r.loc.menus).id)])

\* second count query of the loop and response_data.append
read_menus_dishes_count(db, r) ==
    LET menu == Head(r.loc.menus)
        response_data ==
            Append(r.loc.response_data,
                   MenuBodyCounted(menu, r.loc.submenus_count,
                                   DishesCountOfMenu(db, menu.id)))
    IN  IF Tail(r.loc.menus) = <<>>
        THEN Answer(db, r, Resp(200, "", response_data))
        ELSE Go(db, r, "submenus_count",
                [menus |-> Tail(r.loc.menus), response_data |-> response_data])

read_one_menu_query(db, r) ==
    LET menu == MenuById(db, r.arg.menu_id)
    IN  IF menu = <<>>
        THEN Answer(db, r, Resp(404, "menu not found", <<>>))
        ELSE Go(db, r, "submenus_count", [menu |-> menu[1]])

read_one_menu_submenus_count(db, r) ==
    Go(db, r, "dishes_count",
       [menu |-> r.loc.menu, submenus_count |-> SubmenusCount(db, r.arg.menu_id)])

read_one_menu_dishes_count(db, r) ==
    Answer(db, r, Resp(200, "",
        <<MenuBodyCounted(r.loc.menu, r.loc.submenus_count,
                          DishesCountOfMenu(db, r.arg.menu_id))>>))

\* the query; the attribute assignments that follow touch the loaded object
update_menu_query(v, db, r) ==
    LET updated_menu == MenuById(db, r.arg.menu_id)
    IN  IF updated_menu # <<>>
        THEN Go(db, r, "commit", [loaded |-> updated_menu[1]])
        ELSE IF v = "async"
             THEN Answer(db, r, Resp(404, "menu not found", <<>>))
             ELSE Answer(db, r, NoResponse)

\* db.commit(): UPDATE of the changed attributes WHERE id; no statement when
\* none changed, StaleDataError when the statement matches no row
update_menu_commit(db, r) ==
    LET assigned == [title |-> r.arg.title, description |-> r.arg.description]
        cols == Changed(r.loc.loaded, assigned)
        row == MenuById(db, r.loc.loaded.id)
    IN  IF cols = {}
        THEN Go(db, r, "refresh", [id |-> r.loc.loaded.id])
        ELSE IF row = <<>>
        THEN Answer(db, r, ServerError("StaleDataError"))
        ELSE Go([db EXCEPT !.menus = Rewrite(db, @, r.loc.loaded.id,
                                             Assign(row[1], assigned, cols))],
                r, "refresh", [id |-> r.loc.loaded.id])

update_menu_refresh(db, r) ==
    LET updated_menu == MenuById(db, r.loc.id)
    IN  IF updated_menu = <<>>
        THEN Answer(db, r, ServerError("InvalidRequestError"))
        ELSE Answer(db, r, Resp(200, "", <<MenuBody(updated_menu[1])>>))

delete_menu_query(v, db, r) ==
    LET removed_menu == MenuById(db, r.arg.menu_id)
    IN  IF removed_menu # <<>>
        THEN Go(db, r, "delete", [id |-> removed_menu[1].id])
        ELSE IF v = "async"
             THEN Answer(db, r, Resp(404, "menu not found", <<>>))
             ELSE Answer(db, r, NoResponse)

\* db.delete(removed_menu): marks the object, the DELETE goes out at commit
delete_menu_delete(db, r) == Go(db, r, "commit", r.loc)

\* db.delete(removed_menu) of a handler that deletes the menu's SubMenus
\* and their Dishes itself
SessionDeleteMenu_WithChildren(db, menu_id) ==
    LET gone == {db.submenus[i].id : i \in {k \in 1..Len(db.submenus) :
                                              db.submenus[k].menu_id = menu_id}}
    IN  [db EXCEPT !.menus = SelectSeq(@, LAMBDA m : m.id # menu_id),
                   !.submenus = SelectSeq(@, LAMBDA s : s.menu_id # menu_id),
                   !.dishes = SelectSeq(@, LAMBDA d : d.submenu_id \notin gone)]

\* What the session sends for db.delete(removed_menu) is decided by the
\* mapping of Menu (models): with no delete cascade declared on the mapping,
\* the handler logic not cascading to SubMenu or Dish, it is the one
\* statement DELETE FROM menu WHERE id, and the rows of the other tables are
\* left to the foreign keys.
SessionDeleteMenu(db, menu_id) ==
    [db EXCEPT !.menus = SelectSeq(@, LAMBDA m : m.id # menu_id)]

\* db.commit(): the session's statement, then the foreign keys on the rows
\* that still reference the menu; a DELETE that matches no row only warns
delete_menu_commit(db, r) ==
    LET sent == SessionDeleteMenu(db, r.loc.id)
    IN  IF MenuById(db, r.loc.id) = <<>>
        THEN Answer(db, r, Resp(200, "", <<>>))
        ELSE IF FkRefusesDeleteMenu(sent, r.loc.id)
        THEN Answer(db, r, ServerError("IntegrityError"))
        ELSE Answer(FkAfterDeleteMenu(sent, r.loc.id), r, Resp(200, "", <<>>))

\* ------------------------------------------------------ SubMenu handlers
SubmenuBody(s) == [id |-> s.id, title |-> s.title, description |-> s.description]

SubmenuBodyCounted(s, dishes_count) ==
    [id |-> s.id, title |-> s.title, description |-> s.description,
     dishes_count |-> dishes_count]

\* SubmenuTitleElsewhere without the filter on SubMenu.menu_id
SubmenuTitleAnywhere(db, menu_id, title) ==
    SelectSeq(db.submenus, LAMBDA s : s.title = title)

\* query(SubMenu).filter(SubMenu.menu_id != menu_id, SubMenu.title == title)
SubmenuTitleElsewhere(db, menu_id, title) ==
    SelectSeq(db.submenus, LAMBDA s : s.menu_id # menu_id /\ s.title = title)

\* first query: the menu
create_submenu_menu_query(db, r) ==
    IF MenuById(db, r.arg.menu_id) = <<>>
    THEN Answer(db, r, Resp(404, "menu not found", <<>>))
    ELSE Go(db, r, "title", <<>>)

\* second query: the title under another menu
create_submenu_title_query(v, db, r) ==
    LET existing_submenu == SubmenuTitleElsewhere(db, r.arg.menu_id, r.arg.title)
    IN  IF v = "async" /\ MultipleResultsFound(existing_submenu)
        THEN Answer(db, r, ServerError("MultipleResultsFound"))
        ELSE IF first(existing_submenu) # <<>>
        THEN Answer(db, r, Resp(400, "Submenu already belongs to ather menu", <<>>))
        ELSE Go(db, r, "commit", <<>>)

\* db.add(new_submenu); db.commit(): the INSERT
create_submenu_commit(db, r) ==
    LET new_submenu == [id |-> NewId(db, "submenu"), title |-> r.arg.title,
                        description |-> r.arg.description,
                        menu_id |-> r.arg.menu_id]
    IN  IF FkRefusesInsertSubmenu(db, r.arg.menu_id)
        THEN Answer(db, r, ServerError("IntegrityError"))
        ELSE Go([db EXCEPT !.submenus = Append(@, new_submenu),
                           !.nextId = Advance(db, "submenu")],
                r, "refresh", [id |-> new_submenu.id])

create_submenu_refresh(db, r) ==
    LET new_submenu == SubmenuByPk(db, r.loc.id)
    IN  IF new_submenu = <<>>
        THEN Answer(db, r, ServerError("InvalidRequestError"))
        ELSE Answer(db, r, Resp(201, "", <<SubmenuBody(new_submenu[1])>>))

read_submenus_query(db, r) ==
    LET page == OffsetLimit(SubmenusByMenu(db, r.arg.menu_id), r.arg.skip, r.arg.limit)
    IN  IF page = <<>>
        THEN Answer(db, r, Resp(200, "", <<>>))
        ELSE Go(db, r, "dishes_count", [submenus |-> page, response_data |-> <<>>])

\* the count query of the loop, for the submenu at the head of loc.submenus,
\* and response_data.append
read_submenus_dishes_count(db, r) ==
    LET submenu == Head(r.loc.submenus)
        response_data ==
            Append(r.loc.response_data,
                   SubmenuBodyCounted(submenu, DishesCount(db, submenu.id)))
    IN  IF Tail(r.loc.submenus) = <<>>
        THEN Answer(db, r, Resp(200, "", response_data))
        ELSE Go(db, r, "dishes_count",
                [submenus |-> Tail(r.loc.submenus), response_data |-> response_data])

read_one_submenu_query(db, r) ==
    LET submenu == SubmenuByIds(db, r.arg.menu_id, r.arg.submenu_id)
    IN  IF submenu = <<>>
        THEN Answer(db, r, Resp(404, "submenu not found", <<>>))
        ELSE Go(db, r, "dishes_count", [submenu |-> submenu[1]])

read_one_submenu_dishes_count(db, r) ==
    Answer(db, r, Resp(200, "",
        <<SubmenuBodyCounted(r.loc.submenu, DishesCount(db, r.arg.submenu_id))>>))

update_submenu_query(db, r) ==
    LET updated_submenu == SubmenuByIds(db, r.arg.menu_id, r.arg.submenu_id)
    IN  IF updated_submenu # <<>>
        THEN Go(db, r, "commit", [loaded |-> updated_submenu[1]])
        ELSE Answer(db, r, NoResponse)

update_submenu_commit(db, r) ==
    LET assigned == [title |-> r.arg.title, description |-> r.arg.description]
        cols == Changed(r.loc.loaded, assigned)
        row == SubmenuByPk(db, r.loc.loaded.id)
    IN  IF cols = {}
        THEN Go(db, r, "refresh", [id |-> r.loc.loaded.id])
        ELSE IF row = <<>>
        THEN Answer(db, r, ServerError("StaleDataError"))
        ELSE Go([db EXCEPT !.submenus = Rewrite(db, @, r.loc.loaded.id,
                                                Assign(row[1], assigned, cols))],
                r, "refresh", [id |-> r.loc.loaded.id])

update_submenu_refresh(db, r) ==
    LET updated_submenu == SubmenuByPk(db, r.loc.id)
    IN  IF updated_submenu = <<>>
        THEN Answer(db, r, ServerError("InvalidRequestError"))
        ELSE Answer(db, r, Resp(200, "", <<SubmenuBody(updated_submenu[1])>>))

delete_submenu_query(db, r) ==
    LET removed_submenu == SubmenuByIds(db, r.arg.menu_id, r.arg.submenu_id)
    IN  IF removed_submenu # <<>>
        THEN Go(db, r, "delete", [id |-> removed_submenu[1].id])
        ELSE Answer(db, r, NoResponse)

delete_submenu_delete(db, r) == Go(db, r, "commit", r.loc)

delete_submenu_commit(db, r) ==
    IF SubmenuByPk(db, r.loc.id) = <<>>
    THEN Answer(db, r, Resp(200, "", <<>>))
    ELSE IF FkRefusesDeleteSubmenu(db, r.loc.id)
    THEN Answer(db, r, ServerError("IntegrityError"))
    ELSE Answer(FkAfterDeleteSubmenus(
                  [db EXCEPT !.submenus = SelectSeq(@, LAMBDA s : s.id # r.loc.id)],
                  {r.loc.id}),
                r, Resp(200, "", <<>>))

\* --------------------------------------------------------- Dish handlers
DishBodyRounded(d) ==
    [id |-> d.id, title |-> d.title, description |-> d.description,
     price |-> PriceRounded(d.price)]

DishBodyRaw(d) ==
    [id |-> d.id, title |-> d.title, description |-> d.description,
     price |-> PriceRaw(d.price)]

\* query(Dish).filter(Dish.submenu_id != submenu_id, Dish.title == title)
DishTitleElsewhere(db, submenu_id, title) ==
    SelectSeq(db.dishes, LAMBDA d : d.submenu_id # submenu_id /\ d.title = title)

\* first query: the submenu under the menu
create_dish_submenu_query(db, r) ==
    IF SubmenuByIds(db, r.arg.menu_id, r.arg.submenu_id) = <<>>
    THEN Answer(db, r, Resp(404, "Submenu not found", <<>>))
    ELSE Go(db, r, "title", <<>>)

\* second query: the title under another submenu
create_dish_title_query(v, db, r) ==
    LET existing_dish == DishTitleElsewhere(db, r.arg.submenu_id, r.arg.title)
    IN  IF v = "async" /\ MultipleResultsFound(existing_dish)
        THEN Answer(db, r, ServerError("MultipleResultsFound"))
        ELSE IF first(existing_dish) # <<>>
        THEN Answer(db, r, Resp(400, "Dish already belongs to ather submenu", <<>>))
        ELSE Go(db, r, "commit", <<>>)

create_dish_commit(db, r) ==
    LET new_dish == [id |-> NewId(db, "dish"), title |-> r.arg.title,
                     description |-> r.arg.description,
                     price |-> PriceColumn(r.arg.price),
                     submenu_id |-> r.arg.submenu_id]
    IN  IF FkRefusesInsertDish(db, r.arg.submenu_id)
        THEN Answer(db, r, ServerError("IntegrityError"))
        ELSE Go([db EXCEPT !.dishes = Append(@, new_dish),
                           !.nextId = Advance(db, "dish")],
                r, "refresh", [id |-> new_dish.id])

create_dish_refresh(db, r) ==
    LET new_dish == DishByPk(db, r.loc.id)
    IN  IF new_dish = <<>>
        THEN Answer(db, r, ServerError("InvalidRequestError"))
        ELSE Answer(db, r, Resp(201, "", <<DishBodyRounded(new_dish[1])>>))

\* the one query of the list handler and its response
read_dishes_query(db, r) ==
    LET page == OffsetLimit(DishesBySubmenu(db, r.arg.submenu_id),
                            r.arg.skip, r.arg.limit)
    IN  Answer(db, r, Resp(200, "", [i \in 1..Len(page) |-> DishBodyRounded(page[i])]))

\* the one query of the read-one handler and its response
read_dish_query(db, r) ==
    LET dish == DishByIds(db, r.arg.submenu_id, r.arg.dish_id)
    IN  IF dish = <<>>
        THEN Answer(db, r, Resp(404, "dish not found", <<>>))
        ELSE Answer(db, r, Resp(200, "", <<DishBodyRounded(dish[1])>>))

update_dish_query(db, r) ==
    LET updated_dish == DishByIds(db, r.arg.submenu_id, r.arg.dish_id)
    IN  IF updated_dish # <<>>
        THEN Go(db, r, "commit", [loaded |-> updated_dish[1]])
        ELSE Answer(db, r, NoResponse)

update_dish_commit(db, r) ==
    LET assigned == [title |-> r.arg.title, description |-> r.arg.description,
                     price |-> PriceColumn(r.arg.price)]
        cols == Changed(r.loc.loaded, assigned)
        row == DishByPk(db, r.loc.loaded.id)
    IN  IF cols = {}
        THEN Go(db, r, "refresh", [id |-> r.loc.loaded.id])
        ELSE IF row = <<>>
        THEN Answer(db, r, ServerError("StaleDataError"))
        ELSE Go([db EXCEPT !.dishes = Rewrite(db, @, r.loc.loaded.id,
                                              Assign(row[1], assigned, cols))],
                r, "refresh", [id |-> r.loc.loaded.id])

update_dish_refresh(db, r) ==
    LET updated_dish == DishByPk(db, r.loc.id)
    IN  IF updated_dish = <<>>
        THEN Answer(db, r, ServerError("InvalidRequestError"))
        ELSE Answer(db, r, Resp(200, "", <<DishBodyRaw(updated_dish[1])>>))

delete_dish_query(db, r) ==
    LET removed_dish == DishByIds(db, r.arg.submenu_id, r.arg.dish_id)
    IN  IF removed_dish # <<>>
        THEN Go(db, r, "delete", [id |-> removed_dish[1].id])
        ELSE Answer(db, r, NoResponse)

delete_dish_delete(db, r) == Go(db, r, "commit", r.loc)

delete_dish_commit(db, r) ==
    Answer([db EXCEPT !.dishes = SelectSeq(@, LAMBDA d : d.id # r.loc.id)],
           r, Resp(200, "", <<>>))

\* ------------------------------------------- a handler from call to call
\* the step a request takes next, by its handler and its position in it
HandlerStep(v, db, r) ==
    CASE r.op = "create_menu" ->
           IF r.pc = "start" THEN create_menu_commit(db, r)
           ELSE create_menu_refresh(db, r)
      [] r.op = "read_menus" ->
           IF r.pc = "start" THEN read_menus_query(db, r)
           ELSE IF r.pc = "submenus_count" THEN read_menus_submenus_count(db, r)
           ELSE read_menus_dishes_count(db, r)
      [] r.op = "read_one_menu" ->
           IF r.pc = "start" THEN read_one_menu_query(db, r)
           ELSE IF r.pc = "submenus_count" THEN read_one_menu_submenus_count(db, r)
           ELSE read_one_menu_dishes_count(db, r)
      [] r.op = "update_menu" ->
           IF r.pc = "start" THEN update_menu_query(v, db, r)
           ELSE IF r.pc = "commit" THEN update_menu_commit(db, r)
           ELSE update_menu_refresh(db, r)
      [] r.op = "delete_menu" ->
           IF r.pc = "start" THEN delete_menu_query(v, db, r)
           ELSE IF r.pc = "delete" THEN delete_menu_delete(db, r)
           ELSE delete_menu_commit(db, r)
      [] r.op = "create_submenu_for_menu" ->
           IF r.pc = "start" THEN create_submenu_menu_query(db, r)
           ELSE IF r.pc = "title" THEN create_submenu_title_query(v, db, r)
           ELSE IF r.pc = "commit" THEN create_submenu_commit(db, r)
           ELSE create_submenu_refresh(db, r)
      [] r.op = "read_submenus_for_menu" ->
           IF r.pc = "start" THEN read_submenus_query(db, r)
           ELSE read_submenus_dishes_count(db, r)
      [] r.op = "read_one_submenu_for_menu" ->
           IF r.pc = "start" THEN read_one_submenu_query(db, r)
           ELSE read_one_submenu_dishes_count(db, r)
      [] r.op = "update_submenu" ->
           IF r.pc = "start" THEN update_submenu_query(db, r)
           ELSE IF r.pc = "commit" THEN update_submenu_commit(db, r)
           ELSE update_submenu_refresh(db, r)
      [] r.op = "delete_submenu" ->
           IF r.pc = "start" THEN delete_submenu_query(db, r)
           ELSE IF r.pc = "delete" THEN delete_submenu_delete(db, r)
           ELSE delete_submenu_commit(db, r)
      [] r.op = "create_dish_for_submenu" ->
           IF r.pc = "start" THEN create_dish_submenu_query(db, r)
           ELSE IF r.pc = "title" THEN create_dish_title_query(v, db, r)
           ELSE IF r.pc = "commit" THEN create_dish_commit(db, r)
           ELSE create_dish_refresh(db, r)
      [] r.op = "read_dishes_for_submenu" -> read_dishes_query(db, r)
      [] r.op = "read_dish_for_submenu" -> read_dish_query(db, r)
      [] r.op = "update_dish" ->
           IF r.pc = "start" THEN update_dish_query(db, r)
           ELSE IF r.pc = "commit" THEN update_dish_commit(db, r)
           ELSE update_dish_refresh(db, r)
      [] r.op = "delete_dish" ->
           IF r.pc = "start" THEN delete_dish_query(db, r)
           ELSE IF r.pc = "delete" THEN delete_dish_delete(db, r)
           ELSE delete_dish_commit(db, r)

\* a request served from db with no step of another request in between: the
\* database it leaves and its response
RECURSIVE Alone(_, _, _)
Alone(v, db, r) ==
    IF r.pc = "answered" THEN Out(db, r.resp)
    ELSE LET o == HandlerStep(v, db, r) IN Alone(v, o.db, o.req)

\* the handlers, run from their first call to their response.  Eleven of
\* them have the same code in both files and take no variant.
create_menu(db, title, description) ==
    Alone("sync", db, Request("create_menu",
                              [title |-> title, description |-> description]))

read_menus(db, skip, limit) ==
    Alone("sync", db, Request("read_menus", [skip |-> skip, limit |-> limit]))

read_one_menu(db, menu_id) ==
    Alone("sync", db, Request("read_one_menu", [menu_id |-> menu_id]))

update_menu(v, db, menu_id, title, description) ==
    Alone(v, db, Request("update_menu",
                         [menu_id |-> menu_id, title |-> title,
                          description |-> description]))

delete_menu(v, db, menu_id) ==
    Alone(v, db, Request("delete_menu", [menu_id |-> menu_id]))

\* create_submenu_for_menu with the title check ahead of the menu check
create_submenu_TitleCheckFirst(v, db, menu_id, title, description) ==
    LET existing_submenu == SelectSeq(db.submenus,
                              LAMBDA s : s.menu_id # menu_id /\ s.title = title)
        new_submenu == [id |-> db.nextId.submenu, title |-> title,
                        description |-> description, menu_id |-> menu_id]
    IN  IF v = "async" /\ Len(existing_submenu) > 1
        THEN [db |-> db, resp |-> [status |-> 500, detail |-> "MultipleResultsFound",
                                   body |-> <<>>]]
        ELSE IF existing_submenu # <<>>
        THEN [db |-> db, resp |-> [status |-> 400,
                                   detail |-> "Submenu already belongs to ather menu",
                                   body |-> <<>>]]
        ELSE IF SelectSeq(db.menus, LAMBDA m : m.id = menu_id) = <<>>
        THEN [db |-> db, resp |-> [status |-> 404, detail |-> "menu not found",
                                   body |-> <<>>]]
        ELSE [db |-> [db EXCEPT !.submenus = Append(@, new_submenu),
                                !.nextId = [@ EXCEPT !.submenu = @ + 1]],
              resp |-> [status |-> 201, detail |-> "",
                        body |-> <<[id |-> new_submenu.id, title |-> title,
                                    description |-> description]>>]]

create_submenu_for_menu(v, db, menu_id, title, description) ==
    Alone(v, db, Request("create_submenu_for_menu",
                         [menu_id |-> menu_id, title |-> title,
                          description |-> description]))

read_submenus_for_menu(db, menu_id, skip, limit) ==
    Alone("sync", db, Request("read_submenus_for_menu",
                              [menu_id |-> menu_id, skip |-> skip, limit |-> limit]))

read_one_submenu_for_menu(db, menu_id, submenu_id) ==
    Alone("sync", db, Request("read_one_submenu_for_menu",
                              [menu_id |-> menu_id, submenu_id |-> submenu_id]))

\* update_submenu that assigns the new title to every SubMenu of the menu
update_submenu_AllOfMenu(db, menu_id, submenu_id, title, description) ==
    LET updated_submenu == SubmenuByIds(db, menu_id, submenu_id)
    IN  IF updated_submenu # <<>>
        THEN LET row == [updated_submenu[1] EXCEPT !.title = title,
                                                   !.description = description]
             IN  Out([db EXCEPT !.submenus =
                        [i \in 1..Len(@) |->
                            IF @[i].menu_id = menu_id
                            THEN [@[i] EXCEPT !.title = title,
                                              !.description = description]
                            ELSE @[i]]],
                     Resp(200, "", <<SubmenuBody(row)>>))
        ELSE Out(db, NoResponse)

update_submenu(db, menu_id, submenu_id, title, description) ==
    Alone("sync", db, Request("update_submenu",
                              [menu_id |-> menu_id, submenu_id |-> submenu_id,
                               title |-> title, description |-> description]))

delete_submenu(db, menu_id, submenu_id) ==
    Alone("sync", db, Request("delete_submenu",
                              [menu_id |-> menu_id, submenu_id |-> submenu_id]))

create_dish_for_submenu(v, db, menu_id, submenu_id, title, description, price) ==
    Alone(v, db, Request("create_dish_for_submenu",
                         [menu_id |-> menu_id, submenu_id |-> submenu_id,
                          title |-> title, description |-> description,
                          price |-> price]))

read_dishes_for_submenu(db, menu_id, submenu_id, skip, limit) ==
    Alone("sync", db, Request("read_dishes_for_submenu",
                              [menu_id |-> menu_id, submenu_id |-> submenu_id,
                               skip |-> skip, limit |-> limit]))

\* read_dish_for_submenu that looks the SubMenu up under menu_id first
read_dish_for_submenu_ChecksMenu(db, menu_id, submenu_id, dish_id) ==
    LET dish == DishByIds(db, submenu_id, dish_id)
    IN  IF dish = <<>> \/ SubmenuByIds(db, menu_id, submenu_id) = <<>>
        THEN Out(db, Resp(404, "dish not found", <<>>))
        ELSE Out(db, Resp(200, "", <<DishBodyRounded(dish[1])>>))

read_dish_for_submenu(db, menu_id, submenu_id, dish_id) ==
    Alone("sync", db, Request("read_dish_for_submenu",
                              [menu_id |-> menu_id, submenu_id |-> submenu_id,
                               dish_id |-> dish_id]))

update_dish(db, menu_id, submenu_id, dish_id, title, description, price) ==
    Alone("sync", db, Request("update_dish",
                              [menu_id |-> menu_id, submenu_id |-> submenu_id,
                               dish_id |-> dish_id, title |-> title,
                               description |-> description, price |-> price]))

\* delete_dish that answers 200 without deleting the row
delete_dish_KeepsRow(db, menu_id, submenu_id, dish_id) ==
    LET removed_dish == SelectSeq(db.dishes,
                          LAMBDA d : d.submenu_id = submenu_id /\ d.id = dish_id)
    IN  IF removed_dish # <<>>
        THEN [db |-> db, resp |-> [status |-> 200, detail |-> "", body |-> <<>>]]
        ELSE [db |-> db, resp |-> [status |-> 0, detail |-> "", body |-> <<>>]]

delete_dish(db, menu_id, submenu_id, dish_id) ==
    Alone("sync", db, Request("delete_dish",
                              [menu_id |-> menu_id, submenu_id |-> submenu_id,
                               dish_id |-> dish_id]))

\* ------------------------------------------------------------ the system
\* app is the application that serves the database, main.py or
\* main_asyncio.py.  reqs holds the requests in service, one per worker
\* (a thread of main.py's pool, a task of main_asyncio.py's event loop).
\* clients is the load: how many requests the clients keep outstanding and
\* how many they issue in all.
NoRequests == [p \in 1..MaxInFlight |-> <<>>]

\* opened: sessions created so far, one per request; closed: sessions closed
NoSessions == [opened |-> 0, closed |-> 0]

Init ==
    /\ menus = <<>>
    /\ submenus = <<>>
    /\ dishes = <<>>
    /\ nextId = [menu |-> 1, submenu |-> 1, dish |-> 1]
    /\ fk \in FkPolicies
    /\ heap = "INPLACE"
    /\ app \in Variants
    /\ clients = [inflight |-> MaxInFlight, requests |-> MaxRequests]
    /\ reqs = NoRequests
    /\ sessions = NoSessions

\* path parameters: every id handed out so far (its row present or deleted)
\* and one id that names no row
MenuIds == 1..nextId.menu

SubmenuIds == 1..nextId.submenu

DishIds == 1..nextId.dish

InFlight == {p \in 1..MaxInFlight : reqs[p] # <<>>}

\* no request is in service
Quiet == InFlight = {}

At(p, op, pc) == reqs[p] # <<>> /\ reqs[p][1].op = op /\ reqs[p][1].pc = pc

\* the first free worker takes the next request, while the clients have one
CanArrive(p) ==
    /\ reqs[p] = <<>>
    /\ \A q \in 1..(p - 1) : reqs[q] # <<>>
    /\ Cardinality(InFlight) < clients.inflight
    /\ sessions.opened < clients.requests

\* the step o of the request of worker p: the database after it and the
\* request at its next call
Take(p, o) ==
    /\ menus' = o.db.menus
    /\ submenus' = o.db.submenus
    /\ dishes' = o.db.dishes
    /\ nextId' = o.db.nextId
    /\ reqs' = [reqs EXCEPT ![p] = <<o.req>>]
    /\ UNCHANGED <<fk, heap, app, clients>>

\* a request enters its handler with a session of its own (db = SessionLocal()
\* in main.py, Depends(get_session) in main_asyncio.py) and runs to its first
\* database call
Arrive(p, o) ==
    /\ sessions' = [sessions EXCEPT !.opened = @ + 1]
    /\ Take(p, o)

\* a request in service makes its next database call
Proceed(p, o) ==
    /\ Take(p, o)
    /\ UNCHANGED sessions

CreateMenu(p) ==
    /\ CanArrive(p)
    /\ \E t \in Titles, d \in Descriptions :
          Arrive(p, create_menu_commit(Store,
            Request("create_menu",
                [title |-> t, description |-> d])))

CreateMenuRefresh(p) ==
    /\ At(p, "create_menu", "refresh")
    /\ Proceed(p, create_menu_refresh(Store, reqs[p][1]))

ReadMenus(p) ==
    /\ CanArrive(p)
    /\ \E skip \in Skips, limit \in Limits :
          Arrive(p, read_menus_query(Store,
            Request("read_menus",
                [skip |-> skip, limit |-> limit])))

ReadMenusSubmenusCount(p) ==
    /\ At(p, "read_menus", "submenus_count")
    /\ Proceed(p, read_menus_submenus_count(Store, reqs[p][1]))

ReadMenusDishesCount(p) ==
    /\ At(p, "read_menus", "dishes_count")
    /\ Proceed(p, read_menus_dishes_count(Store, reqs[p][1]))

ReadOneMenu(p) ==
    /\ CanArrive(p)
    /\ \E m \in MenuIds :
          Arrive(p, read_one_menu_query(Store,
            Request("read_one_menu",
                [menu_id |-> m])))

ReadOneMenuSubmenusCount(p) ==
    /\ At(p, "read_one_menu", "submenus_count")
    /\ Proceed(p, read_one_menu_submenus_count(Store, reqs[p][1]))

ReadOneMenuDishesCount(p) ==
    /\ At(p, "read_one_menu", "dishes_count")
    /\ Proceed(p, read_one_menu_dishes_count(Store, reqs[p][1]))

UpdateMenu(p) ==
    /\ CanArrive(p)
    /\ \E m \in MenuIds, t \in Titles, d \in Descriptions :
          Arrive(p, update_menu_query(app, Store,
            Request("update_menu",
                [menu_id |-> m, title |-> t, description |-> d])))

UpdateMenuCommit(p) ==
    /\ At(p, "update_menu", "commit")
    /\ Proceed(p, update_menu_commit(Store, reqs[p][1]))

UpdateMenuRefresh(p) ==
    /\ At(p, "update_menu", "refresh")
    /\ Proceed(p, update_menu_refresh(Store, reqs[p][1]))

DeleteMenu(p) ==
    /\ CanArrive(p)
    /\ \E m \in MenuIds :
          Arrive(p, delete_menu_query(app, Store,
            Request("delete_menu",
                [menu_id |-> m])))

DeleteMenuDelete(p) ==
    /\ At(p, "delete_menu", "delete")
    /\ Proceed(p, delete_menu_delete(Store, reqs[p][1]))

DeleteMenuCommit(p) ==
    /\ At(p, "delete_menu", "commit")
    /\ Proceed(p, delete_menu_commit(Store, reqs[p][1]))

CreateSubmenu(p) ==
    /\ CanArrive(p)
    /\ \E m \in MenuIds, t \in Titles, d \in Descriptions :
          Arrive(p, create_submenu_menu_query(Store,
            Request("create_submenu_for_menu",
                [menu_id |-> m, title |-> t, description |-> d])))

CreateSubmenuTitle(p) ==
    /\ At(p, "create_submenu_for_menu", "title")
    /\ Proceed(p, create_submenu_title_query(app, Store, reqs[p][1]))

CreateSubmenuCommit(p) ==
    /\ At(p, "create_submenu_for_menu", "commit")
    /\ Proceed(p, create_submenu_commit(Store, reqs[p][1]))

CreateSubmenuRefresh(p) ==
    /\ At(p, "create_submenu_for_menu", "refresh")
    /\ Proceed(p, create_submenu_refresh(Store, reqs[p][1]))

ReadSubmenus(p) ==
    /\ CanArrive(p)
    /\ \E m \in MenuIds, skip \in Skips, limit \in Limits :
          Arrive(p, read_submenus_query(Store,
            Request("read_submenus_for_menu",
                [menu_id |-> m, skip |-> skip, limit |-> limit])))

ReadSubmenusDishesCount(p) ==
    /\ At(p, "read_submenus_for_menu", "dishes_count")
    /\ Proceed(p, read_submenus_dishes_count(Store, reqs[p][1]))

ReadOneSubmenu(p) ==
    /\ CanArrive(p)
    /\ \E m \in MenuIds, s \in SubmenuIds :
          Arrive(p, read_one_submenu_query(Store,
            Request("read_one_submenu_for_menu",
                [menu_id |-> m, submenu_id |-> s])))

ReadOneSubmenuDishesCount(p) ==
    /\ At(p, "read_one_submenu_for_menu", "dishes_count")
    /\ Proceed(p, read_one_submenu_dishes_count(Store, reqs[p][1]))

UpdateSubmenu(p) ==
    /\ CanArrive(p)
    /\ \E m \in MenuIds, s \in SubmenuIds, t \in Titles, d \in Descriptions :
          Arrive(p, update_submenu_query(Store,
            Request("update_submenu",
                [menu_id |-> m, submenu_id |-> s, title |-> t, description |-> d])))

UpdateSubmenuCommit(p) ==
    /\ At(p, "update_submenu", "commit")
    /\ Proceed(p, update_submenu_commit(Store, reqs[p][1]))

UpdateSubmenuRefresh(p) ==
    /\ At(p, "update_submenu", "refresh")
    /\ Proceed(p, update_submenu_refresh(Store, reqs[p][1]))

DeleteSubmenu(p) ==
    /\ CanArrive(p)
    /\ \E m \in MenuIds, s \in SubmenuIds :
          Arrive(p, delete_submenu_query(Store,
            Request("delete_submenu",
                [menu_id |-> m, submenu_id |-> s])))

DeleteSubmenuDelete(p) ==
    /\ At(p, "delete_submenu", "delete")
    /\ Proceed(p, delete_submenu_delete(Store, reqs[p][1]))

DeleteSubmenuCommit(p) ==
    /\ At(p, "delete_submenu", "commit")
    /\ Proceed(p, delete_submenu_commit(Store, reqs[p][1]))

CreateDish(p) ==
    /\ CanArrive(p)
    /\ \E m \in MenuIds, s \in SubmenuIds, t \in Titles, d \in Descriptions,
          price \in Prices :
          Arrive(p, create_dish_submenu_query(Store,
            Request("create_dish_for_submenu",
                [menu_id |-> m, submenu_id |-> s, title |-> t, description |-> d, price |-> price])))

CreateDishTitle(p) ==
    /\ At(p, "create_dish_for_submenu", "title")
    /\ Proceed(p, create_dish_title_query(app, Store, reqs[p][1]))

CreateDishCommit(p) ==
    /\ At(p, "create_dish_for_submenu", "commit")
    /\ Proceed(p, create_dish_commit(Store, reqs[p][1]))

CreateDishRefresh(p) ==
    /\ At(p, "create_dish_for_submenu", "refresh")
    /\ Proceed(p, create_dish_refresh(Store, reqs[p][1]))

ReadDishes(p) ==
    /\ CanArrive(p)
    /\ \E m \in MenuIds, s \in SubmenuIds, skip \in Skips, limit \in Limits :
          Arrive(p, read_dishes_query(Store,
            Request("read_dishes_for_submenu",
                [menu_id |-> m, submenu_id |-> s, skip |-> skip, limit |-> limit])))

ReadOneDish(p) ==
    /\ CanArrive(p)
    /\ \E m \in MenuIds, s \in SubmenuIds, d \in DishIds :
          Arrive(p, read_dish_query(Store,
            Request("read_dish_for_submenu",
                [menu_id |-> m, submenu_id |-> s, dish_id |-> d])))

UpdateDish(p) ==
    /\ CanArrive(p)
    /\ \E m \in MenuIds, s \in SubmenuIds, d \in DishIds, t \in Titles,
          ds \in Descriptions, price \in Prices :
          Arrive(p, update_dish_query(Store,
            Request("update_dish",
                [menu_id |-> m, submenu_id |-> s, dish_id |-> d, title |-> t, description |-> ds, price |-> price])))

UpdateDishCommit(p) ==
    /\ At(p, "update_dish", "commit")
    /\ Proceed(p, update_dish_commit(Store, reqs[p][1]))

UpdateDishRefresh(p) ==
    /\ At(p, "update_dish", "refresh")
    /\ Proceed(p, update_dish_refresh(Store, reqs[p][1]))

DeleteDish(p) ==
    /\ CanArrive(p)
    /\ \E m \in MenuIds, s \in SubmenuIds, d \in DishIds :
          Arrive(p, delete_dish_query(Store,
            Request("delete_dish",
                [menu_id |-> m, submenu_id |-> s, dish_id |-> d])))

DeleteDishDelete(p) ==
    /\ At(p, "delete_dish", "delete")
    /\ Proceed(p, delete_dish_delete(Store, reqs[p][1]))

DeleteDishCommit(p) ==
    /\ At(p, "delete_dish", "commit")
    /\ Proceed(p, delete_dish_commit(Store, reqs[p][1]))

\* the request ends: get_session leaves its async with block and closes the
\* session; the handler of main.py returns or raises with db still open
Return(p) ==
    /\ reqs[p] # <<>>
    /\ reqs[p][1].pc = "answered"
    /\ reqs' = [reqs EXCEPT ![p] = <<>>]
    /\ sessions' = IF app = "async"
                   THEN [sessions EXCEPT !.closed = @ + 1]
                   ELSE sessions
    /\ UNCHANGED <<menus, submenus, dishes, nextId, fk, heap, app, clients>>

Next ==
    \/ \E p \in 1..MaxInFlight : CreateMenu(p)
    \/ \E p \in 1..MaxInFlight : CreateMenuRefresh(p)
    \/ \E p \in 1..MaxInFlight : ReadMenus(p)
    \/ \E p \in 1..MaxInFlight : ReadMenusSubmenusCount(p)
    \/ \E p \in 1..MaxInFlight : ReadMenusDishesCount(p)
    \/ \E p \in 1..MaxInFlight : ReadOneMenu(p)
    \/ \E p \in 1..MaxInFlight : ReadOneMenuSubmenusCount(p)
    \/ \E p \in 1..MaxInFlight : ReadOneMenuDishesCount(p)
    \/ \E p \in 1..MaxInFlight : UpdateMenu(p)
    \/ \E p \in 1..MaxInFlight : UpdateMenuCommit(p)
    \/ \E p \in 1..MaxInFlight : UpdateMenuRefresh(p)
    \/ \E p \in 1..MaxInFlight : DeleteMenu(p)
    \/ \E p \in 1..MaxInFlight : DeleteMenuDelete(p)
    \/ \E p \in 1..MaxInFlight : DeleteMenuCommit(p)
    \/ \E p \in 1..MaxInFlight : CreateSubmenu(p)
    \/ \E p \in 1..MaxInFlight : CreateSubmenuTitle(p)
    \/ \E p \in 1..MaxInFlight : CreateSubmenuCommit(p)
    \/ \E p \in 1..MaxInFlight : CreateSubmenuRefresh(p)
    \/ \E p \in 1..MaxInFlight : ReadSubmenus(p)
    \/ \E p \in 1..MaxInFlight : ReadSubmenusDishesCount(p)
    \/ \E p \in 1..MaxInFlight : ReadOneSubmenu(p)
    \/ \E p \in 1..MaxInFlight : ReadOneSubmenuDishesCount(p)
    \/ \E p \in 1..MaxInFlight : UpdateSubmenu(p)
    \/ \E p \in 1..MaxInFlight : UpdateSubmenuCommit(p)
    \/ \E p \in 1..MaxInFlight : UpdateSubmenuRefresh(p)
    \/ \E p \in 1..MaxInFlight : DeleteSubmenu(p)
    \/ \E p \in 1..MaxInFlight : DeleteSubmenuDelete(p)
    \/ \E p \in 1..MaxInFlight : DeleteSubmenuCommit(p)
    \/ \E p \in 1..MaxInFlight : CreateDish(p)
    \/ \E p \in 1..MaxInFlight : CreateDishTitle(p)
    \/ \E p \in 1..MaxInFlight : CreateDishCommit(p)
    \/ \E p \in 1..MaxInFlight : CreateDishRefresh(p)
    \/ \E p \in 1..MaxInFlight : ReadDishes(p)
    \/ \E p \in 1..MaxInFlight : ReadOneDish(p)
    \/ \E p \in 1..MaxInFlight : UpdateDish(p)
    \/ \E p \in 1..MaxInFlight : UpdateDishCommit(p)
    \/ \E p \in 1..MaxInFlight : UpdateDishRefresh(p)
    \/ \E p \in 1..MaxInFlight : DeleteDish(p)
    \/ \E p \in 1..MaxInFlight : DeleteDishDelete(p)
    \/ \E p \in 1..MaxInFlight : DeleteDishCommit(p)
    \/ \E p \in 1..MaxInFlight : Return(p)

Spec == Init /\ [][Next]_vars

\* ------------------------------------------ requests one after another
\* The clients wait for the response before they send the next request.
InitSerial ==
    /\ menus = <<>>
    /\ submenus = <<>>
    /\ dishes = <<>>
    /\ nextId = [menu |-> 1, submenu |-> 1, dish |-> 1]
    /\ fk \in FkPolicies
    /\ heap = "INPLACE"
    /\ app \in Variants
    /\ clients = [inflight |-> 1, requests |-> MaxSerial]
    /\ reqs = NoRequests
    /\ sessions = NoSessions

SpecSerial == InitSerial /\ [][Next]_vars

\* ------------------------------------------------- row order and paging
\* A SELECT without ORDER BY returns rows as the engine stores them.  Spec
\* follows an engine that updates rows in place; here the engine is either,
\* and the requests, one after another, are those that write rows and
\* those that list them.
InitPaging ==
    /\ menus = <<>>
    /\ submenus = <<>>
    /\ dishes = <<>>
    /\ nextId = [menu |-> 1, submenu |-> 1, dish |-> 1]
    /\ fk \in FkPolicies
    /\ heap \in HeapPolicies
    /\ app \in Variants
    /\ clients = [inflight |-> 1, requests |-> MaxPaging]
    /\ reqs = NoRequests
    /\ sessions = NoSessions

NextPaging ==
    \/ \E p \in 1..MaxInFlight : CreateMenu(p)
    \/ \E p \in 1..MaxInFlight : CreateMenuRefresh(p)
    \/ \E p \in 1..MaxInFlight : UpdateMenu(p)
    \/ \E p \in 1..MaxInFlight : UpdateMenuCommit(p)
    \/ \E p \in 1..MaxInFlight : UpdateMenuRefresh(p)
    \/ \E p \in 1..MaxInFlight : ReadMenus(p)
    \/ \E p \in 1..MaxInFlight : ReadMenusSubmenusCount(p)
    \/ \E p \in 1..MaxInFlight : ReadMenusDishesCount(p)
    \/ \E p \in 1..MaxInFlight : CreateSubmenu(p)
    \/ \E p \in 1..MaxInFlight : CreateSubmenuTitle(p)
    \/ \E p \in 1..MaxInFlight : CreateSubmenuCommit(p)
    \/ \E p \in 1..MaxInFlight : CreateSubmenuRefresh(p)
    \/ \E p \in 1..MaxInFlight : UpdateSubmenu(p)
    \/ \E p \in 1..MaxInFlight : UpdateSubmenuCommit(p)
    \/ \E p \in 1..MaxInFlight : UpdateSubmenuRefresh(p)
    \/ \E p \in 1..MaxInFlight : ReadSubmenus(p)
    \/ \E p \in 1..MaxInFlight : ReadSubmenusDishesCount(p)
    \/ \E p \in 1..MaxInFlight : CreateDish(p)
    \/ \E p \in 1..MaxInFlight : CreateDishTitle(p)
    \/ \E p \in 1..MaxInFlight : CreateDishCommit(p)
    \/ \E p \in 1..MaxInFlight : CreateDishRefresh(p)
    \/ \E p \in 1..MaxInFlight : UpdateDish(p)
    \/ \E p \in 1..MaxInFlight : UpdateDishCommit(p)
    \/ \E p \in 1..MaxInFlight : UpdateDishRefresh(p)
    \/ \E p \in 1..MaxInFlight : ReadDishes(p)
    \/ \E p \in 1..MaxInFlight : Return(p)

SpecPaging == InitPaging /\ [][NextPaging]_vars

\* ------------------------------------------------------- price round trip
\* A database that holds one Menu with one SubMenu; Dishes are created,
\* updated and read, one request after another, with prices drawn from
\* PricesWide.
InitPrice ==
    /\ menus = <<[id |-> 1, title |-> "t1", description |-> "d1"]>>
    /\ submenus = <<[id |-> 1, title |-> "t1", description |-> "d1", menu_id |-> 1]>>
    /\ dishes = <<>>
    /\ nextId = [menu |-> 2, submenu |-> 2, dish |-> 1]
    /\ fk \in FkPolicies
    /\ heap = "INPLACE"
    /\ app \in Variants
    /\ clients = [inflight |-> 1, requests |-> MaxPriced]
    /\ reqs = NoRequests
    /\ sessions = NoSessions

CreateDishPriced(p) ==
    /\ CanArrive(p)
    /\ \E m \in MenuIds, s \in SubmenuIds, t \in Titles, d \in Descriptions,
          price \in PricesWide :
          Arrive(p, create_dish_submenu_query(Store,
            Request("create_dish_for_submenu",
                [menu_id |-> m, submenu_id |-> s, title |-> t,
                 description |-> d, price |-> price])))

UpdateDishPriced(p) ==
    /\ CanArrive(p)
    /\ \E m \in MenuIds, s \in SubmenuIds, d \in DishIds, t \in Titles,
          ds \in Descriptions, price \in PricesWide :
          Arrive(p, update_dish_query(Store,
            Request("update_dish",
                [menu_id |-> m, submenu_id |-> s, dish_id |-> d, title |-> t,
                 description |-> ds, price |-> price])))

NextPrice ==
    \/ \E p \in 1..MaxInFlight : CreateDishPriced(p)
    \/ \E p \in 1..MaxInFlight : CreateDishTitle(p)
    \/ \E p \in 1..MaxInFlight : CreateDishCommit(p)
    \/ \E p \in 1..MaxInFlight : CreateDishRefresh(p)
    \/ \E p \in 1..MaxInFlight : UpdateDishPriced(p)
    \/ \E p \in 1..MaxInFlight : UpdateDishCommit(p)
    \/ \E p \in 1..MaxInFlight : UpdateDishRefresh(p)
    \/ \E p \in 1..MaxInFlight : ReadDishes(p)
    \/ \E p \in 1..MaxInFlight : ReadOneDish(p)
    \/ \E p \in 1..MaxInFlight : Return(p)

SpecPrice == InitPrice /\ [][NextPrice]_vars

\* ------------------------------------------------------- deleting menus
\* Menus, SubMenus and Dishes are created and menus are deleted, one
\* request after another.
InitDelete ==
    /\ menus = <<>>
    /\ submenus = <<>>
    /\ dishes = <<>>
    /\ nextId = [menu |-> 1, submenu |-> 1, dish |-> 1]
    /\ fk \in FkPolicies
    /\ heap = "INPLACE"
    /\ app \in Variants
    /\ clients = [inflight |-> 1, requests |-> MaxDeleting]
    /\ reqs = NoRequests
    /\ sessions = NoSessions

NextDelete ==
    \/ \E p \in 1..MaxInFlight : CreateMenu(p)
    \/ \E p \in 1..MaxInFlight : CreateMenuRefresh(p)
    \/ \E p \in 1..MaxInFlight : CreateSubmenu(p)
    \/ \E p \in 1..MaxInFlight : CreateSubmenuTitle(p)
    \/ \E p \in 1..MaxInFlight : CreateSubmenuCommit(p)
    \/ \E p \in 1..MaxInFlight : CreateSubmenuRefresh(p)
    \/ \E p \in 1..MaxInFlight : CreateDish(p)
    \/ \E p \in 1..MaxInFlight : CreateDishTitle(p)
    \/ \E p \in 1..MaxInFlight : CreateDishCommit(p)
    \/ \E p \in 1..MaxInFlight : CreateDishRefresh(p)
    \/ \E p \in 1..MaxInFlight : DeleteMenu(p)
    \/ \E p \in 1..MaxInFlight : DeleteMenuDelete(p)
    \/ \E p \in 1..MaxInFlight : DeleteMenuCommit(p)
    \/ \E p \in 1..MaxInFlight : Return(p)

SpecDelete == InitDelete /\ [][NextDelete]_vars

\* ================================================================ claims
\* A claim about what a handler does from a store state is stated for the
\* handler run from its first call to its response with no step of another
\* request in between, from every store the service reaches (Quiet: the
\* store between two requests).  Claims about overlapping requests are
\* stated on the requests in service.

\* indices of the rows of a table that satisfy a condition
SubmenusOfMenu(m) == {i \in 1..Len(submenus) : submenus[i].menu_id = m}

DishesOfSubmenu(sid) == {j \in 1..Len(dishes) : dishes[j].submenu_id = sid}

MenuExists(m) == \E i \in 1..Len(menus) : menus[i].id = m

SubmenuExists(sid) == \E i \in 1..Len(submenus) : submenus[i].id = sid

\* the SubMenus with title t under a menu other than m
ForeignSubmenus(m, t) ==
    {i \in 1..Len(submenus) : submenus[i].title = t /\ submenus[i].menu_id # m}

\* the Dishes with title t under a SubMenu other than sid
ForeignDishes(sid, t) ==
    {j \in 1..Len(dishes) : dishes[j].title = t /\ dishes[j].submenu_id # sid}

\* worker p holds a request of handler op that has been answered
Answered(p, op) == At(p, op, "answered")

\* C1: in both variants, create-SubMenu for an existing menu M with title t
\* answers 400 and inserts nothing whenever at least one SubMenu with title t
\* exists under another menu, also when several SubMenus carry that title.
C1_ConflictInBothVariants ==
    Quiet =>
    \A v \in Variants, m \in MenuIds, t \in Titles, d \in Descriptions :
        (MenuExists(m) /\ ForeignSubmenus(m, t) # {})
        => LET o == create_submenu_for_menu(v, Store, m, t, d)
           IN  o.resp.status = 400 /\ o.db = Store

\* C2: every SubMenu's menu_id names an existing Menu and every Dish's
\* submenu_id names an existing SubMenu, in every reachable state, whatever
\* the interleaving of the requests' steps.
C2_ReferentialIntegrity ==
    /\ \A i \in 1..Len(submenus) : MenuExists(submenus[i].menu_id)
    /\ \A j \in 1..Len(dishes) : SubmenuExists(dishes[j].submenu_id)

\* C2 witness: a create-SubMenu found its menu, the menu was deleted by an
\* overlapping request before the INSERT, and the foreign key refused it.
C2_Witness ==
    \E p \in 1..MaxInFlight :
        /\ Answered(p, "create_submenu_for_menu")
        /\ reqs[p][1].resp = ServerError("IntegrityError")
        /\ ~MenuExists(reqs[p][1].arg.menu_id)

\* C3: for every request and every store state the synchronous and the
\* asynchronous handler of a route give the same response and the same
\* resulting store.
C3_VariantsAgree ==
    Quiet =>
    /\ \A m \in MenuIds, t \in Titles, d \in Descriptions :
          update_menu("sync", Store, m, t, d) = update_menu("async", Store, m, t, d)
    /\ \A m \in MenuIds :
          delete_menu("sync", Store, m) = delete_menu("async", Store, m)
    /\ \A m \in MenuIds, t \in Titles, d \in Descriptions :
          create_submenu_for_menu("sync", Store, m, t, d)
            = create_submenu_for_menu("async", Store, m, t, d)
    /\ \A m \in MenuIds, sid \in SubmenuIds, t \in Titles, d \in Descriptions,
          p \in Prices :
          create_dish_for_submenu("sync", Store, m, sid, t, d, p)
            = create_dish_for_submenu("async", Store, m, sid, t, d, p)

\* the sum, over the SubMenus with indices in I, of their numbers of Dishes
RECURSIVE SumOfDishesCounts(_)
SumOfDishesCounts(I) ==
    IF I = {} THEN 0
    ELSE LET i == CHOOSE x \in I : TRUE
         IN  Cardinality(DishesOfSubmenu(submenus[i].id)) + SumOfDishesCounts(I \ {i})

\* the Dishes whose SubMenu belongs to menu m
DishesOfMenu(m) ==
    {j \in 1..Len(dishes) :
        \E i \in SubmenusOfMenu(m) : submenus[i].id = dishes[j].submenu_id}

MenuCountsRight(body) ==
    /\ body.submenus_count = Cardinality(SubmenusOfMenu(body.id))
    /\ body.dishes_count = Cardinality(DishesOfMenu(body.id))
    /\ body.dishes_count = SumOfDishesCounts(SubmenusOfMenu(body.id))

\* C4: read-one Menu and every item of list Menus report submenus_count = the
\* number of SubMenu rows of the menu and dishes_count = the number of Dish
\* rows under its SubMenus (the sum of their dishes_count); both are 0 for a
\* menu read right after its creation.
C4_MenuCounts ==
    Quiet =>
    /\ \A m \in MenuIds :
          MenuExists(m)
          => LET r == read_one_menu(Store, m).resp
             IN  r.status = 200 /\ r.body[1].id = m /\ MenuCountsRight(r.body[1])
    /\ \A skip \in Skips, limit \in Limits :
          LET r == read_menus(Store, skip, limit).resp
          IN  \A k \in 1..Len(r.body) : MenuCountsRight(r.body[k])
    /\ \A t \in Titles, d \in Descriptions :
          LET o == create_menu(Store, t, d)
              r == read_one_menu(o.db, o.resp.body[1].id).resp
          IN  /\ o.resp.status = 201
              /\ r.status = 200
              /\ r.body[1].submenus_count = 0
              /\ r.body[1].dishes_count = 0

\* C4 witness: a read-one Menu was answered with 2 SubMenus and 1 Dish for a
\* menu that holds them.
C4_Witness ==
    \E p \in 1..MaxInFlight :
        /\ Answered(p, "read_one_menu")
        /\ reqs[p][1].resp.status = 200
        /\ reqs[p][1].resp.body[1].submenus_count = 2
        /\ reqs[p][1].resp.body[1].dishes_count = 1
        /\ Cardinality(SubmenusOfMenu(reqs[p][1].arg.menu_id)) = 2
        /\ Cardinality(DishesOfMenu(reqs[p][1].arg.menu_id)) = 1

SubmenuCountRight(body) ==
    body.dishes_count = Cardinality(DishesOfSubmenu(body.id))

\* C5: read-one SubMenu and every item of list SubMenus report dishes_count =
\* the number of Dish rows stored with that submenu_id; a successful dish
\* creation under it raises that number by one, a successful dish deletion
\* lowers it by one, and neither changes the number of any other SubMenu.
C5_SubmenuCount ==
    Quiet =>
    /\ \A m \in MenuIds, sid \in SubmenuIds :
          LET r == read_one_submenu_for_menu(Store, m, sid).resp
          IN  r.status = 200 => (r.body[1].id = sid /\ SubmenuCountRight(r.body[1]))
    /\ \A m \in MenuIds, skip \in Skips, limit \in Limits :
          LET r == read_submenus_for_menu(Store, m, skip, limit).resp
          IN  \A k \in 1..Len(r.body) : SubmenuCountRight(r.body[k])
    /\ \A v \in Variants, m \in MenuIds, sid \in SubmenuIds, t \in Titles,
          d \in Descriptions, p \in Prices :
          LET o == create_dish_for_submenu(v, Store, m, sid, t, d, p)
          IN  o.resp.status = 201
              => \A s2 \in SubmenuIds :
                    DishesCount(o.db, s2)
                      = Cardinality(DishesOfSubmenu(s2)) + (IF s2 = sid THEN 1 ELSE 0)
    /\ \A m \in MenuIds, sid \in SubmenuIds, did \in DishIds :
          LET o == delete_dish(Store, m, sid, did)
          IN  o.resp.status = 200
              => \A s2 \in SubmenuIds :
                    DishesCount(o.db, s2)
                      = Cardinality(DishesOfSubmenu(s2)) - (IF s2 = sid THEN 1 ELSE 0)

\* C5 witness: a read-one SubMenu was answered with no Dish for a SubMenu
\* whose sibling holds the one Dish of the store.
C5_Witness ==
    \E p \in 1..MaxInFlight :
        /\ Answered(p, "read_one_submenu_for_menu")
        /\ reqs[p][1].resp.status = 200
        /\ reqs[p][1].resp.body[1].dishes_count = 0
        /\ Len(submenus) = 2
        /\ Len(dishes) = 1

\* C6: create-SubMenu with a menu_id that names no Menu answers 404 and
\* leaves the three tables unchanged, for every title, also one that another
\* menu's SubMenu carries (the existence check is decided first).
C6_NotFoundFirst ==
    Quiet =>
    \A v \in Variants, m \in MenuIds, t \in Titles, d \in Descriptions :
        ~MenuExists(m)
        => LET o == create_submenu_for_menu(v, Store, m, t, d)
           IN  o.resp.status = 404 /\ o.db = Store

\* C6 witness: a create-SubMenu was answered 404 for a menu_id that names no
\* Menu and a title that a SubMenu of another menu carries.
C6_Witness ==
    \E p \in 1..MaxInFlight :
        /\ Answered(p, "create_submenu_for_menu")
        /\ reqs[p][1].resp.status = 404
        /\ ~MenuExists(reqs[p][1].arg.menu_id)
        /\ ForeignSubmenus(reqs[p][1].arg.menu_id, reqs[p][1].arg.title) # {}

\* C7: for an existing menu M, create-SubMenu with title t answers 201 and
\* appends one row bound to M with an id no row has, whenever no SubMenu under
\* another menu has title t, however many SubMenus of M carry t; two such
\* creations in a row both succeed and give two distinct rows.
C7_SameScopeTitleAccepted ==
    Quiet =>
    \A v \in Variants, m \in MenuIds, t \in Titles, d \in Descriptions :
        (MenuExists(m) /\ ForeignSubmenus(m, t) = {})
        => LET o == create_submenu_for_menu(v, Store, m, t, d)
               n == Len(submenus)
               row == o.db.submenus[n + 1]
           IN  /\ o.resp.status = 201
               /\ Len(o.db.submenus) = n + 1
               /\ SubSeq(o.db.submenus, 1, n) = submenus
               /\ row.menu_id = m /\ row.title = t
               /\ ~SubmenuExists(row.id)
               /\ o.resp.body[1].id = row.id
               /\ o.db.menus = menus /\ o.db.dishes = dishes
               /\ \A v2 \in Variants :
                     LET o2 == create_submenu_for_menu(v2, o.db, m, t, d)
                     IN  /\ o2.resp.status = 201
                         /\ Len(o2.db.submenus) = n + 2
                         /\ o2.db.submenus[n + 2].menu_id = m
                         /\ o2.db.submenus[n + 2].title = t
                         /\ o2.db.submenus[n + 2].id # row.id

\* C7 witness: a create-SubMenu was answered 201 for a title that an older
\* SubMenu of the same menu carries.
C7_Witness ==
    \E p \in 1..MaxInFlight :
        /\ Answered(p, "create_submenu_for_menu")
        /\ reqs[p][1].resp.status = 201
        /\ \E i \in 1..Len(submenus) :
              /\ submenus[i].menu_id = reqs[p][1].arg.menu_id
              /\ submenus[i].title = reqs[p][1].arg.title
              /\ submenus[i].id < reqs[p][1].resp.body[1].id

\* C8: in both variants create-Dish(menu_id, submenu_id, title) answers 404
\* (nothing inserted) if no SubMenu has that id and that menu_id; otherwise 400
\* (nothing inserted) if a Dish with that title exists under another
\* submenu_id; otherwise 201 with exactly one new Dish row bound to submenu_id.
C8_CreateDishOutcome ==
    Quiet =>
    \A v \in Variants, m \in MenuIds, sid \in SubmenuIds, t \in Titles,
       d \in Descriptions, p \in Prices :
        LET o == create_dish_for_submenu(v, Store, m, sid, t, d, p)
            n == Len(dishes)
        IN  IF ~\E i \in 1..Len(submenus) :
                   submenus[i].id = sid /\ submenus[i].menu_id = m
            THEN o.resp.status = 404 /\ o.db = Store
            ELSE IF ForeignDishes(sid, t) # {}
            THEN o.resp.status = 400 /\ o.db = Store
            ELSE /\ o.resp.status = 201
                 /\ Len(o.db.dishes) = n + 1
                 /\ SubSeq(o.db.dishes, 1, n) = dishes
                 /\ o.db.dishes[n + 1].submenu_id = sid
                 /\ o.db.dishes[n + 1].title = t

StoreNext == [menus |-> menus', submenus |-> submenus', dishes |-> dishes',
              nextId |-> nextId', fk |-> fk', heap |-> heap']

\* a dish id that was handed out and that no Dish row carries under sid
DishGone(db, sid, did) ==
    /\ did < db.nextId.dish
    /\ \A j \in 1..Len(db.dishes) :
          ~(db.dishes[j].id = did /\ db.dishes[j].submenu_id = sid)

\* a successful delete leaves the dish gone, and read-one of a dish that is
\* gone answers 404
C9_ReadAfterDelete ==
    Quiet =>
    \A m \in MenuIds, sid \in SubmenuIds, did \in DishIds :
        /\ LET o == delete_dish(Store, m, sid, did)
           IN  o.resp.status = 200 => (o.db # Store /\ DishGone(o.db, sid, did))
        /\ DishGone(Store, sid, did)
           => read_dish_for_submenu(Store, m, sid, did).resp.status = 404

\* no step of any request brings a dish that is gone back
C9_StaysGone ==
    \A sid \in SubmenuIds, did \in DishIds :
        DishGone(Store, sid, did) => DishGone(StoreNext, sid, did)

\* C9: after a successful delete of a Dish read-one of that (submenu_id,
\* dish_id) answers 404, and it keeps answering 404 whatever requests follow,
\* new dish creations included.
C9_DeletedDishStaysGone ==
    [](C9_ReadAfterDelete) /\ [][C9_StaysGone]_vars

\* C9 witness: five requests were made, the last a read-one answered 404 for
\* the one Dish ever created, under the one SubMenu ever created, which is
\* still there while the Dish is not: it was created and deleted before.
C9_Witness ==
    \E p \in 1..MaxInFlight :
        /\ Answered(p, "read_dish_for_submenu")
        /\ reqs[p][1].resp.status = 404
        /\ reqs[p][1].arg.dish_id = 1
        /\ nextId.dish = 2
        /\ SubmenuExists(reqs[p][1].arg.submenu_id)
        /\ dishes = <<>>
        /\ sessions.opened = 5

SubmenuMatches(m, sid) ==
    \E i \in 1..Len(submenus) : submenus[i].id = sid /\ submenus[i].menu_id = m

DishMatches(sid, did) ==
    \E j \in 1..Len(dishes) : dishes[j].id = did /\ dishes[j].submenu_id = sid

\* what the update and delete handlers of SubMenu and Dish do for a target
\* that is absent: nothing, and they return no response
SilentOnAbsentChild ==
    /\ \A m \in MenuIds, sid \in SubmenuIds, t \in Titles, d \in Descriptions :
          ~SubmenuMatches(m, sid)
          => /\ update_submenu(Store, m, sid, t, d) = Out(Store, NoResponse)
             /\ delete_submenu(Store, m, sid) = Out(Store, NoResponse)
    /\ \A m \in MenuIds, sid \in SubmenuIds, did \in DishIds, t \in Titles,
          d \in Descriptions, p \in Prices :
          ~DishMatches(sid, did)
          => /\ update_dish(Store, m, sid, did, t, d, p) = Out(Store, NoResponse)
             /\ delete_dish(Store, m, sid, did) = Out(Store, NoResponse)

\* C10: update and delete handlers addressed to an absent Menu, SubMenu or
\* Dish, in both variants, leave the three tables unchanged and produce no
\* structured response, neither a 200 body nor a 404.
C10_SilentInBothVariants ==
    Quiet =>
    /\ SilentOnAbsentChild
    /\ \A v \in Variants, m \in MenuIds, t \in Titles, d \in Descriptions :
          ~MenuExists(m)
          => /\ update_menu(v, Store, m, t, d).db = Store
             /\ update_menu(v, Store, m, t, d).resp.status \notin {200, 404}
             /\ delete_menu(v, Store, m).db = Store
             /\ delete_menu(v, Store, m).resp.status \notin {200, 404}

\* ----------------------------------------------------------------- C12
\* ids are handed out in increasing order, so the rows in insertion order
\* are the rows in ascending id
RECURSIVE InInsertionOrder(_)
InInsertionOrder(rows) ==
    IF rows = <<>> THEN <<>>
    ELSE LET i == CHOOSE i \in DOMAIN rows :
                     \A j \in DOMAIN rows : rows[i].id <= rows[j].id
         IN  <<rows[i]>> \o
             InInsertionOrder([k \in 1..(Len(rows) - 1) |->
                                 IF k < i THEN rows[k] ELSE rows[k + 1]])

\* the ids at positions s .. s+l-1 (counted from 0) of rows
IdsAtPositions(rows, s, l) ==
    LET n == IF Len(rows) - s < 0 THEN 0
             ELSE IF Len(rows) - s < l THEN Len(rows) - s ELSE l
    IN  [k \in 1..n |-> rows[s + k].id]

IdsOf(body) == [k \in DOMAIN body |-> body[k].id]

\* C12: a list request with skip = s and limit = l returns at most l records,
\* and they are the rows at positions s .. s+l-1 of the matching rows taken
\* in insertion order (menus; submenus of a menu; dishes of a submenu).
C12_PageInInsertionOrder ==
    Quiet =>
    \A s \in Skips, l \in Limits :
        /\ LET body == read_menus(Store, s, l).resp.body
           IN  /\ Len(body) <= l
               /\ IdsOf(body) = IdsAtPositions(InInsertionOrder(menus), s, l)
        /\ \A m \in MenuIds :
              LET body == read_submenus_for_menu(Store, m, s, l).resp.body
              IN  /\ Len(body) <= l
                  /\ IdsOf(body) =
                       IdsAtPositions(InInsertionOrder(SubmenusByMenu(Store, m)), s, l)
        /\ \A m \in MenuIds, sid \in SubmenuIds :
              LET body == read_dishes_for_submenu(Store, m, sid, s, l).resp.body
              IN  /\ Len(body) <= l
                  /\ IdsOf(body) =
                       IdsAtPositions(InInsertionOrder(DishesBySubmenu(Store, sid)), s, l)

\* ----------------------------------------------------------------- C13
\* the value, in hundredths, of a price text with two fractional digits
Hundredths(e) == e.int * 100 + e.frac[1] * 10 + e.frac[2]

\* the value, in thousandths, of a price text with three fractional digits
Thousandths(e) == e.int * 1000 + e.frac[1] * 100 + e.frac[2] * 10 + e.frac[3]

\* e is the text of p (thousandths) rounded to two fractional digits: the
\* nearest hundredth, the even one of two equally near
IsRoundedText(e, p) ==
    LET h    == Hundredths(e)
        dist == IF 10 * h >= p THEN 10 * h - p ELSE p - 10 * h
    IN  /\ Len(e.frac) = 2
        /\ \A i \in 1..2 : e.frac[i] \in 0..9
        /\ dist <= 5
        /\ dist = 5 => h % 2 = 0

\* e is the text of p (thousandths) with its three fractional digits
IsUnroundedText(e, p) ==
    /\ Len(e.frac) = 3
    /\ \A i \in 1..3 : e.frac[i] \in 0..9
    /\ Thousandths(e) = p

\* C13: create-Dish echoes the submitted price rounded to two fractional
\* digits (19.999 as "20.00"), update-Dish echoes it with its three fractional
\* digits (19.999 as "19.999"), list and read-one echo the stored price
\* rounded to two fractional digits.
C13_PriceEcho ==
    Quiet =>
    /\ \A v \in Variants, m \in MenuIds, sid \in SubmenuIds, t \in Titles,
          d \in Descriptions, p \in PricesWide :
          LET o == create_dish_for_submenu(v, Store, m, sid, t, d, p)
          IN  o.resp.status = 201
              => /\ IsRoundedText(o.resp.body[1].price, p)
                 /\ p = 19999 => o.resp.body[1].price = [int |-> 20, frac |-> <<0, 0>>]
    /\ \A m \in MenuIds, i \in DOMAIN dishes, t \in Titles,
          d \in Descriptions, p \in PricesWide :
          LET o == update_dish(Store, m, dishes[i].submenu_id, dishes[i].id, t, d, p)
          IN  /\ o.resp.status = 200
              /\ IsUnroundedText(o.resp.body[1].price, p)
              /\ p = 19999 => o.resp.body[1].price = [int |-> 19, frac |-> <<9, 9, 9>>]
    /\ \A m \in MenuIds, i \in DOMAIN dishes :
          LET one == read_dish_for_submenu(Store, m, dishes[i].submenu_id, dishes[i].id)
          IN  /\ one.resp.status = 200
              /\ IsRoundedText(one.resp.body[1].price, dishes[i].price)
    /\ \A m \in MenuIds, sid \in SubmenuIds, s \in Skips, l \in Limits :
          LET body == read_dishes_for_submenu(Store, m, sid, s, l).resp.body
          IN  \A k \in DOMAIN body :
                \E i \in DOMAIN dishes :
                    /\ dishes[i].id = body[k].id
                    /\ IsRoundedText(body[k].price, dishes[i].price)

\* C13 witness: of two Dishes created at 19.999, the first was updated to the
\* rounding tie 19.995 and the update echoed "19.995".
C13_Witness ==
    \E p \in 1..MaxInFlight :
        /\ Answered(p, "update_dish")
        /\ reqs[p][1].resp.status = 200
        /\ reqs[p][1].resp.body[1].price = [int |-> 19, frac |-> <<9, 9, 5>>]
        /\ Len(dishes) = 2
        /\ dishes[1].price = 19995
        /\ dishes[2].price = 19999

\* ----------------------------------------------------------------- C14
\* the rows of a table that satisfy a condition, in the table's order
SubmenusNotOf(m) == SelectSeq(submenus, LAMBDA s : s.menu_id # m)

DishesNotUnder(m) ==
    SelectSeq(dishes, LAMBDA d :
        \A i \in SubmenusOfMenu(m) : submenus[i].id # d.submenu_id)

MenusBut(m) == SelectSeq(menus, LAMBDA x : x.id # m)

C15_TitlesUniqueAcrossParents ==
    /\ \A i, j \in DOMAIN submenus :
          submenus[i].menu_id # submenus[j].menu_id
          => submenus[i].title # submenus[j].title
    /\ \A i, j \in DOMAIN dishes :
          dishes[i].submenu_id # dishes[j].submenu_id
          => dishes[i].title # dishes[j].title

\* ----------------------------------------------------------------- C17
RowSet(rows) == {rows[i] : i \in DOMAIN rows}

\* table after holds the rows of table before, the row old replaced by new
OnlyRowChanged(before, after, old, new) ==
    /\ Len(after) = Len(before)
    /\ RowSet(after) = (RowSet(before) \ {old}) \cup {new}

\* C17: a successful update changes only the title and description (for a
\* Dish also the price) of the one targeted row; its id and parent reference
\* stay, no row is added or removed and every other row of the three tables
\* is unchanged; for every title, description and price an update may bring.
C17_UpdateChangesOnlyTarget ==
    Quiet =>
    /\ \A v \in Variants, i \in DOMAIN menus, t \in Titles, d \in DescriptionsWide :
          LET o == update_menu(v, Store, menus[i].id, t, d)
          IN  /\ o.resp.status = 200
              /\ OnlyRowChanged(menus, o.db.menus, menus[i],
                                [id |-> menus[i].id, title |-> t, description |-> d])
              /\ o.db.submenus = submenus
              /\ o.db.dishes = dishes
              /\ o.db.nextId = nextId
    /\ \A i \in DOMAIN submenus, t \in Titles, d \in DescriptionsWide :
          LET o == update_submenu(Store, submenus[i].menu_id, submenus[i].id, t, d)
          IN  /\ o.resp.status = 200
              /\ OnlyRowChanged(submenus, o.db.submenus, submenus[i],
                                [id |-> submenus[i].id, title |-> t, description |-> d,
                                 menu_id |-> submenus[i].menu_id])
              /\ o.db.menus = menus
              /\ o.db.dishes = dishes
              /\ o.db.nextId = nextId
    /\ \A m \in MenuIds, j \in DOMAIN dishes, t \in Titles, d \in DescriptionsWide,
          p \in PricesWide :
          LET o == update_dish(Store, m, dishes[j].submenu_id, dishes[j].id, t, d, p)
          IN  /\ o.resp.status = 200
              /\ OnlyRowChanged(dishes, o.db.dishes, dishes[j],
                                [id |-> dishes[j].id, title |-> t, description |-> d,
                                 price |-> p, submenu_id |-> dishes[j].submenu_id])
              /\ o.db.menus = menus
              /\ o.db.submenus = submenus
              /\ o.db.nextId = nextId

\* C17 witness: on the appending engine the first of two SubMenus of a menu
\* was given a new title with 200, so that it is now listed behind the second.
C17_Witness ==
    \E p \in 1..MaxInFlight :
        /\ Answered(p, "update_submenu")
        /\ reqs[p][1].resp.status = 200
        /\ heap = "APPEND"
        /\ Len(submenus) = 2
        /\ submenus[1].id = 2 /\ submenus[2].id = 1
        /\ submenus[1].menu_id = submenus[2].menu_id
        /\ submenus[1].title # submenus[2].title

\* ----------------------------------------------------------------- C18
\* C18: the response and the resulting store of the Dish list, read-one,
\* update and delete requests are the same for every menu_id in the path,
\* the owning menu, another menu or no menu at all.
C18_DishRoutesIgnoreMenuId ==
    Quiet =>
    \A m1, m2 \in MenuIds, sid \in SubmenuIds :
        /\ \A s \in Skips, l \in Limits :
              read_dishes_for_submenu(Store, m1, sid, s, l)
                = read_dishes_for_submenu(Store, m2, sid, s, l)
        /\ \A did \in DishIds :
              /\ read_dish_for_submenu(Store, m1, sid, did)
                   = read_dish_for_submenu(Store, m2, sid, did)
              /\ delete_dish(Store, m1, sid, did) = delete_dish(Store, m2, sid, did)
              /\ \A t \in Titles, d \in Descriptions, p \in Prices :
                    update_dish(Store, m1, sid, did, t, d, p)
                      = update_dish(Store, m2, sid, did, t, d, p)

\* C18 witness: a Dish was read with 200 through a path whose menu_id is an
\* existing menu that does not own the Dish's SubMenu.
C18_Witness ==
    \E p \in 1..MaxInFlight :
        /\ Answered(p, "read_dish_for_submenu")
        /\ reqs[p][1].resp.status = 200
        /\ MenuExists(reqs[p][1].arg.menu_id)
        /\ ~SubmenuMatches(reqs[p][1].arg.menu_id, reqs[p][1].arg.submenu_id)

\* ----------------------------------------------------------------- C19
\* C19: for a submenu_id that exists under a menu other than menu_id,
\* read-one of the SubMenu answers 404 and update and delete change no row.
C19_SubmenuNeedsBothIds ==
    Quiet =>
    \A m \in MenuIds, i \in DOMAIN submenus, t \in Titles, d \in Descriptions :
        submenus[i].menu_id # m
        => /\ read_one_submenu_for_menu(Store, m, submenus[i].id).resp.status = 404
           /\ read_one_submenu_for_menu(Store, m, submenus[i].id).db = Store
           /\ update_submenu(Store, m, submenus[i].id, t, d).db = Store
           /\ delete_submenu(Store, m, submenus[i].id).db = Store
           /\ update_submenu(Store, m, submenus[i].id, t, d).resp.status # 200
           /\ delete_submenu(Store, m, submenus[i].id).resp.status # 200

\* C19 witness: a read-one SubMenu was answered 404 for a SubMenu that exists
\* under another menu, through the id of an existing menu.
C19_Witness ==
    \E p \in 1..MaxInFlight :
        /\ Answered(p, "read_one_submenu_for_menu")
        /\ reqs[p][1].resp.status = 404
        /\ MenuExists(reqs[p][1].arg.menu_id)
        /\ SubmenuExists(reqs[p][1].arg.submenu_id)

\* ----------------------------------------------------------------- C11
\* C11: the sessions that are open are those of the requests in service, one
\* each; a request that has ended, on whatever exit path, has left none
\* behind, so that no session is open once every request has ended.
C11_SessionsReleased ==
    sessions.opened - sessions.closed = Cardinality(InFlight)

\* ----------------------------------------------------------------- C16
\* two requests in service that create a SubMenu with the same title under
\* two different menus, both answered, both having found their menu
RacingCreates(p, q) ==
    /\ p # q
    /\ Answered(p, "create_submenu_for_menu")
    /\ Answered(q, "create_submenu_for_menu")
    /\ reqs[p][1].arg.title = reqs[q][1].arg.title
    /\ reqs[p][1].arg.menu_id # reqs[q][1].arg.menu_id
    /\ reqs[p][1].resp.status # 404
    /\ reqs[q][1].resp.status # 404

\* C16: of two overlapping create-SubMenu requests with the same title for
\* two different existing menus, at most one answers 201 and the other then
\* answers 400.
C16_AtMostOneCreates ==
    \A p, q \in 1..MaxInFlight :
        RacingCreates(p, q) /\ reqs[p][1].resp.status = 201
        => reqs[q][1].resp.status = 400

====
